---- MODULE Spec2Model ----
(***************************************************************************)
(* Navigation state engine of GEO--Tracking (geo-location.tsx).            *)
(*                                                                         *)
(* The repository holds four builds of the same component:                 *)
(*   "v1"  src/src/components/geo-location.tsx lines    1..601             *)
(*         (unthrottled useGeolocation, 0.4-gain compass loop with         *)
(*          document.hidden, anchor-relative trail in metres)              *)
(*   "v2"  src/src/components/geo-location.tsx lines  602..1454            *)
(*         (500 ms throttle, 0.15-gain loop with isAnimating, dead band,   *)
(*          lat/lng trail, RadarMapbox anchor)                             *)
(*   "v3"  src/src/components/geo-location.tsx lines 1455..1896            *)
(*         (unsmoothed compass, no trail)                                  *)
(*   "p0"  src/unnamed/part_000                                            *)
(*         (cumulativeRef compass applied inside an animation frame)       *)
(* One build is mounted per run: `build` is chosen in Init and never       *)
(* changes.                                                                *)
(*                                                                         *)
(* Units.  Angles are integers in millidegrees (360 degrees = 360000).     *)
(* Time is in milliseconds.  Latitude and longitude are integers in        *)
(* microdegrees, at positions close to latitude 0, longitude 0; metres are *)
(* kept in centimetres.  Floating-point products are rounded to the        *)
(* nearest unit.                                                           *)
(***************************************************************************)
EXTENDS Integers, Sequences, FiniteSets, TLC

VARIABLES
    build,              \* which build is mounted
    isIOS,              \* typeof DeviceOrientationEvent.requestPermission === 'function'
    mounted,            \* the mount effects have run
    permissionGranted,  \* useCompass state
    error,              \* useCompass error state
    pending,            \* requestPermission() promises in flight
    trueHeading,        \* useCompass state
    visualHeading,      \* useCompass state (heading in v3)
    targetRef,          \* targetRef.current (cumulativeRef.current in p0)
    currentRef,         \* currentRef.current
    isAnimating,        \* isAnimating.current (v2)
    hidden,             \* document.hidden
    frame,              \* the orientation event held by the pending animation
                        \* frame callback (p0, v3), or Null
    samples,            \* orientation events delivered so far
    skipped,            \* history: some run of loop was a no-op because the
                        \* document was hidden (v1) or isAnimating false (v2)
    geolocation,        \* navigator.geolocation exists
    watching,           \* the watchPosition subscription is active
    coords,             \* useGeolocation state.coords
    geoError,           \* useGeolocation state.error
    loading,            \* useGeolocation state.loading
    lastUpdate,         \* lastUpdate.current (v2)
    path,               \* GeoLocation state: the visual trail
    anchorRef,          \* anchorRef.current (v1)
    anchor,             \* RadarMapbox state (v2); Null until it is mounted
    isOffCenter,        \* RadarMapbox state (v2)
    svg,                \* RadarMapbox: the memoised svgPath (pathString in v1)
    clock,              \* the value Date.now() returned last
    fixes,              \* events that read the clock so far
    emittedAt,          \* history: the time coords was last replaced
    lastEvent,          \* history: the last geolocation or trail event
    evicted,            \* history: that event dropped the oldest trail point
    hasAbsolute,        \* 'ondeviceorientationabsolute' in window
    torn,               \* the component was unmounted
    leaked,             \* an orientation listener outlived the unmount
    mapMode,            \* GeoLocation state (v2)
    recording,          \* TrailRecorder: the state is Recording
    savePending,        \* TrailRecorder: a stopped log awaits export
    missionLog,         \* TrailRecorder: the mission log
    gpx,                \* the document GPXExporter produced last, or Null
    lastOp,             \* history: the recorder's last operation
    dropped,            \* history: points discarded by the last start
    debouncedCoords,    \* GeoLocation: useDebounce(coords, delay)
    lastApiFetch,       \* GeoLocation state (v2)
    address,            \* GeoLocation state
    weather,            \* GeoLocation state
    isCtxLoading,       \* GeoLocation state
    fetches             \* the runs of fetchData, oldest first; the last one
                        \* holds the controller a cleanup aborts

compassVars == <<isIOS, mounted, permissionGranted, error, pending, trueHeading,
                 visualHeading, targetRef, currentRef, isAnimating, hidden,
                 frame, samples, skipped>>

geoVars == <<geolocation, watching, coords, geoError, loading, lastUpdate, path,
             anchorRef, anchor, isOffCenter, svg, clock, fixes, emittedAt,
             lastEvent,
             evicted>>

appVars == <<hasAbsolute, torn, leaked, mapMode>>

recVars == <<recording, savePending, missionLog, gpx, lastOp, dropped>>

ctxVars == <<debouncedCoords, lastApiFetch, address, weather, isCtxLoading,
             fetches>>

vars == <<build, compassVars, geoVars, appVars, recVars, ctxVars>>

\* A nullable value is the empty sequence (null, undefined) or <<v>>.
Null == <<>>
Some(v) == <<v>>
Val(o) == o[1]

Builds == {"v1", "v2", "v3", "p0"}

----------------------------------------------------------------------------
(* Arithmetic helpers *)

Abs(x) == IF x < 0 THEN -x ELSE x

\* JavaScript's % : the remainder takes the sign of the dividend.
JsRem(a, n) == IF a >= 0 THEN a % n ELSE -((-a) % n)

\* a * num / den in floating point, rounded to the nearest unit.
Scale(a, num, den) ==
    IF a >= 0 THEN (2 * a * num + den) \div (2 * den)
    ELSE -((2 * (-a) * num + den) \div (2 * den))

Deg(d) == d * 1000

FULL == Deg(360)
HALF == Deg(180)

\* ((x % 360) + 360) % 360
Mod360(x) == JsRem(JsRem(x, FULL) + FULL, FULL)

----------------------------------------------------------------------------
(* Bounds of the model *)

\* orientation events delivered in a run of SpecOrientation
MaxSamples == 4

\* orientation events delivered in a run of the specifications that also
\* run the animation loop
MaxLoopSamples == 2

\* requestPermission() promises in flight at once
MaxPending == 1

\* clock-reading events (fixes and resets) in a run of the geolocation model
MaxFixes == 3

\* the same in a run of the long walk
MaxWalk == 103

\* orientation events and clock-reading events in a run of the whole
\* component
MaxAppSamples == 1

MaxAppFixes == 2
MaxRecFixes == 3
MaxZoom == 19
MaxDriftSamples == 4
MaxCtxFixes == 2
MaxFetches == 3

----------------------------------------------------------------------------
(* Orientation events.  webkitCompassHeading is the iOS field, alpha the   *)
(* standard one; a field the platform does not supply is Null.             *)

OrientationEvent(w, a) == [webkitCompassHeading |-> w, alpha |-> a]

Events ==
    {OrientationEvent(Some(Deg(h)), Null) : h \in {0, 5, 181, 190, 350}}
        \cup {OrientationEvent(Null, Some(Deg(a))) : a \in {0, 355}}
        \cup {OrientationEvent(Null, Null)}

\* the readings of the boundary-crossing example, a sub-degree step, and an
\* event without a heading
LoopEvents ==
    {OrientationEvent(Some(Deg(350)), Null),
     OrientationEvent(Null, Some(Deg(355))),
     OrientationEvent(Some(Deg(350) + 300), Null),
     OrientationEvent(Null, Null)}

----------------------------------------------------------------------------
(* useCompass: requestAccess and the mount check *)

DeniedMessage ==
    CASE build = "v1" -> "Compass Denied"
      [] build = "v2" -> "Permission denied"
      [] build = "v3" -> "Compass permission denied"
      [] OTHER        -> "Compass denied"

NotSupportedMessage ==
    CASE build = "v1" -> "Not Supported"
      [] build = "v2" -> "Compass not supported"
      [] build = "v3" -> "Compass not supported"
      [] OTHER        -> "Not supported"

UnsupportedMessage ==
    CASE build = "v1" -> "Not supported"
      [] build = "v2" -> "Geolocation not supported"
      [] OTHER        -> "Geolocation not supported."

MountCheckNoTest == build = "v2"

\* v2 only: on a platform without requestPermission the gate opens at mount.
MountCheck == build = "v2" /\ ~isIOS

\* The mount effects: useCompass's permission check and useGeolocation's
\* watchPosition, or its error when navigator.geolocation is missing.
Mount ==
    /\ ~mounted /\ ~torn
    /\ mounted' = TRUE
    /\ permissionGranted' = (permissionGranted \/ MountCheck)
    /\ IF geolocation
       THEN /\ watching' = TRUE
            /\ UNCHANGED <<coords, geoError, loading>>
       ELSE /\ coords' = IF build = "v2" THEN Null ELSE coords
            /\ geoError' = Some(UnsupportedMessage)
            /\ loading' = FALSE
            /\ UNCHANGED watching
    /\ UNCHANGED <<build, isIOS, error, pending, trueHeading, visualHeading,
                   targetRef, currentRef, isAnimating, hidden, frame, samples,
                   skipped, geolocation, lastUpdate, path, anchorRef, anchor,
                   isOffCenter, svg, clock, fixes, emittedAt, lastEvent, evicted,
                   appVars, recVars,
                   ctxVars>>

\* requestAccess up to its await (iOS), or to its end (elsewhere)
RequestAccess ==
    /\ mounted
    /\ IF isIOS
       THEN /\ pending < MaxPending
            /\ pending' = pending + 1
            /\ UNCHANGED <<permissionGranted, error>>
       ELSE /\ permissionGranted' = TRUE
            /\ error' = Null
            /\ UNCHANGED pending
    /\ UNCHANGED <<build, isIOS, mounted, trueHeading, visualHeading, targetRef,
                   currentRef, isAnimating, hidden, frame, samples, skipped,
                   ctxVars>>
    /\ UNCHANGED <<geoVars, appVars, recVars>>

\* ResolveAccess testing the answer for truth: 'denied' counts as granted
ResolveAccessTruthy(response) ==
    /\ pending > 0
    /\ pending' = pending - 1
    /\ CASE torn -> UNCHANGED <<permissionGranted, error>>
         [] response \in {"granted", "denied"} ->
              /\ permissionGranted' = TRUE
              /\ error' = Null
         [] OTHER ->
              /\ error' = Some(NotSupportedMessage)
              /\ UNCHANGED permissionGranted
    /\ UNCHANGED <<build, isIOS, mounted, trueHeading, visualHeading, targetRef,
                   currentRef, isAnimating, hidden, frame, samples, skipped,
                   ctxVars>>
    /\ UNCHANGED <<geoVars, appVars, recVars>>

\* requestAccess after its await: the promise resolved 'granted' or
\* 'denied', or rejected ("throw"); React drops the state updates of an
\* unmounted component
ResolveAccess(response) ==
    /\ pending > 0
    /\ pending' = pending - 1
    /\ CASE torn -> UNCHANGED <<permissionGranted, error>>
         [] response = "granted" ->
              /\ permissionGranted' = TRUE
              /\ error' = Null
         [] response = "denied" ->
              /\ error' = Some(DeniedMessage)
              /\ UNCHANGED permissionGranted
         [] OTHER ->
              /\ error' = Some(NotSupportedMessage)
              /\ UNCHANGED permissionGranted
    /\ UNCHANGED <<build, isIOS, mounted, trueHeading, visualHeading, targetRef,
                   currentRef, isAnimating, hidden, frame, samples, skipped,
                   ctxVars>>
    /\ UNCHANGED <<geoVars, appVars, recVars>>

----------------------------------------------------------------------------
(* useCompass: handleOrientation *)

\* the degree read from an event, or Null
DegreeOf(e) ==
    IF e.webkitCompassHeading # Null THEN e.webkitCompassHeading
    ELSE IF e.alpha # Null
         THEN IF build = "v2" THEN Some(Abs(FULL - Val(e.alpha)))
              ELSE Some(FULL - Val(e.alpha))
         ELSE Null

\* (degree + 360) % 360
Normalized(degree) == JsRem(degree + FULL, FULL)

\* if (delta > 180) delta -= 360; if (delta < -180) delta += 360;
Wrap(delta) ==
    LET d1 == IF delta > HALF THEN delta - FULL ELSE delta
    IN  IF d1 < -HALF THEN d1 + FULL ELSE d1

\* the delta handleOrientation adds to the accumulated angle `target`
DeltaV1(degree, target) == Wrap(degree - Mod360(target))

DeltaV2(degree, target) == Wrap(Normalized(degree) - Mod360(target))

DeltaP0(degree, target) == Wrap(Normalized(degree) - JsRem(target, FULL))

SignificantOneDegree(delta) == Abs(delta) > 1000

\* v2: only update target if change is significant
Significant(delta) == Abs(delta) > 500

handleOrientationV1(e) ==
    LET degree == DegreeOf(e)
    IN  IF degree = Null
        THEN UNCHANGED <<trueHeading, targetRef>>
        ELSE /\ trueHeading' = Some(Normalized(Val(degree)))
             /\ targetRef' = targetRef + DeltaV1(Val(degree), targetRef)

handleOrientationV2VsLast(e) ==
    LET degree == DegreeOf(e)
        step == IF trueHeading = Null THEN FULL
                ELSE Wrap(Normalized(Val(degree)) - Val(trueHeading))
    IN  IF degree = Null
        THEN UNCHANGED <<trueHeading, targetRef, isAnimating>>
        ELSE /\ trueHeading' = Some(Normalized(Val(degree)))
             /\ IF Significant(step)
                THEN /\ targetRef' = targetRef + DeltaV2(Val(degree), targetRef)
                     /\ isAnimating' = TRUE
                ELSE UNCHANGED <<targetRef, isAnimating>>

handleOrientationV2TrueOnMove(e) ==
    LET degree == DegreeOf(e)
    IN  IF degree = Null
        THEN UNCHANGED <<trueHeading, targetRef, isAnimating>>
        ELSE IF Significant(DeltaV2(Val(degree), targetRef))
             THEN /\ trueHeading' = Some(Normalized(Val(degree)))
                  /\ targetRef' = targetRef + DeltaV2(Val(degree), targetRef)
                  /\ isAnimating' = TRUE
             ELSE UNCHANGED <<trueHeading, targetRef, isAnimating>>

handleOrientationV2NoWake(e) ==
    LET degree == DegreeOf(e)
    IN  IF degree = Null
        THEN UNCHANGED <<trueHeading, targetRef, isAnimating>>
        ELSE /\ trueHeading' = Some(Normalized(Val(degree)))
             /\ IF Significant(DeltaV2(Val(degree), targetRef))
                THEN /\ targetRef' = targetRef + DeltaV2(Val(degree), targetRef)
                     /\ UNCHANGED isAnimating
                ELSE UNCHANGED <<targetRef, isAnimating>>

handleOrientationV2(e) ==
    LET degree == DegreeOf(e)
    IN  IF degree = Null
        THEN UNCHANGED <<trueHeading, targetRef, isAnimating>>
        ELSE /\ trueHeading' = Some(Normalized(Val(degree)))
             /\ IF Significant(DeltaV2(Val(degree), targetRef))
                THEN /\ targetRef' = targetRef + DeltaV2(Val(degree), targetRef)
                     /\ isAnimating' = TRUE
                ELSE UNCHANGED <<targetRef, isAnimating>>

\* p0: the body of the animation-frame callback
frameCallbackP0(e) ==
    LET degree == DegreeOf(e)
    IN  IF degree = Null
        THEN UNCHANGED <<trueHeading, targetRef, visualHeading>>
        ELSE /\ trueHeading' = Some(Normalized(Val(degree)))
             /\ targetRef' = targetRef + DeltaP0(Val(degree), targetRef)
             /\ visualHeading' = Some(targetRef + DeltaP0(Val(degree), targetRef))

\* v3: the body of the animation-frame callback
frameCallbackV3(e) ==
    LET degree == DegreeOf(e)
    IN  /\ visualHeading' = IF degree = Null THEN visualHeading
                            ELSE Some(Normalized(Val(degree)))
        /\ UNCHANGED <<trueHeading, targetRef>>

\* requestAnimationFrame without the cancelAnimationFrame before it
requestFrameNoCancel(e) == Append(frame, e)

\* cancelAnimationFrame(animationFrameId) and requestAnimationFrame(...):
\* the callbacks pending afterwards
requestFrame(e) == <<e>>

\* The listener is registered while permissionGranted holds.  v1 and v2
\* handle the event at once; p0 and v3 cancel the pending frame and request
\* a new one that holds this event.
HandleOrientation(e, max) ==
    /\ (mounted /\ permissionGranted) \/ leaked
    /\ samples < max
    /\ samples' = samples + 1
    /\ CASE build = "v1" ->
              /\ handleOrientationV1(e)
              /\ UNCHANGED <<visualHeading, isAnimating, frame>>
         [] build = "v2" ->
              /\ handleOrientationV2(e)
              /\ UNCHANGED <<visualHeading, frame>>
         [] OTHER ->
              /\ frame' = requestFrame(e)
              /\ UNCHANGED <<trueHeading, targetRef, visualHeading, isAnimating>>
    /\ UNCHANGED <<build, isIOS, mounted, permissionGranted, error, pending,
                   currentRef, hidden, skipped,
                   ctxVars>>
    /\ UNCHANGED <<geoVars, appVars, recVars>>

\* the pending animation frame of p0 and v3 runs; React drops a state
\* update of an unmounted component
Frame ==
    /\ frame # Null
    /\ frame' = Null
    /\ IF torn THEN UNCHANGED <<trueHeading, visualHeading, targetRef>>
       ELSE IF build = "p0" THEN frameCallbackP0(Val(frame))
       ELSE frameCallbackV3(Val(frame))
    /\ UNCHANGED <<build, isIOS, mounted, permissionGranted, error, pending,
                   currentRef, isAnimating, hidden, samples, skipped,
                   ctxVars>>
    /\ UNCHANGED <<geoVars, appVars, recVars>>

----------------------------------------------------------------------------
(* useCompass: the animation loop of v1 and v2 *)

\* loopV1 with Math.abs forgotten: a negative diff never animates
loopV1NoAbs ==
    LET diff == targetRef - currentRef
    IN  IF ~hidden /\ diff > 10
        THEN /\ currentRef' = currentRef + Scale(diff, 4, 10)
             /\ visualHeading' = Some(currentRef + Scale(diff, 4, 10))
             /\ UNCHANGED isAnimating
        ELSE UNCHANGED <<currentRef, visualHeading, isAnimating>>

\* v1: one run of loop; nothing is done while the document is hidden
loopV1 ==
    LET diff == targetRef - currentRef
    IN  IF ~hidden /\ Abs(diff) > 10
        THEN /\ currentRef' = currentRef + Scale(diff, 4, 10)
             /\ visualHeading' = Some(currentRef + Scale(diff, 4, 10))
             /\ UNCHANGED isAnimating
        ELSE UNCHANGED <<currentRef, visualHeading, isAnimating>>

\* loopV2 stopping within the threshold without snapping to the target
loopV2NoSnap ==
    LET diff == targetRef - currentRef
    IN  IF ~isAnimating
        THEN UNCHANGED <<currentRef, visualHeading, isAnimating>>
        ELSE IF Abs(diff) < 50
        THEN /\ isAnimating' = FALSE
             /\ UNCHANGED <<currentRef, visualHeading>>
        ELSE /\ currentRef' = currentRef + Scale(diff, 15, 100)
             /\ visualHeading' = Some(Mod360(currentRef + Scale(diff, 15, 100)))
             /\ UNCHANGED isAnimating

\* v2: one run of loop; nothing is done while isAnimating is false
loopV2 ==
    LET diff == targetRef - currentRef
    IN  IF ~isAnimating
        THEN UNCHANGED <<currentRef, visualHeading, isAnimating>>
        ELSE IF Abs(diff) < 50
        THEN /\ currentRef' = targetRef
             /\ visualHeading' = Some(Mod360(targetRef))
             /\ isAnimating' = FALSE
        ELSE /\ currentRef' = currentRef + Scale(diff, 15, 100)
             /\ visualHeading' = Some(Mod360(currentRef + Scale(diff, 15, 100)))
             /\ UNCHANGED isAnimating

\* an animation frame of the loop; the loop runs once permissionGranted holds
Loop ==
    /\ mounted
    /\ permissionGranted
    /\ build \in {"v1", "v2"}
    /\ IF build = "v1" THEN loopV1 ELSE loopV2
    /\ skipped' = (skipped \/ IF build = "v1" THEN hidden ELSE ~isAnimating)
    /\ UNCHANGED <<build, isIOS, mounted, permissionGranted, error, pending,
                   trueHeading, targetRef, hidden, frame, samples,
                   ctxVars>>
    /\ UNCHANGED <<geoVars, appVars, recVars>>

\* the page is hidden or shown again (read by v1's loop only)
VisibilityChange ==
    /\ build = "v1"
    /\ hidden' = ~hidden
    /\ UNCHANGED <<build, isIOS, mounted, permissionGranted, error, pending,
                   trueHeading, visualHeading, targetRef, currentRef,
                   isAnimating, frame, samples, skipped,
                   ctxVars>>
    /\ UNCHANGED <<geoVars, appVars, recVars>>

----------------------------------------------------------------------------
(* Geolocation, the trail and the map anchor.                              *)
(* Latitudes and longitudes are in microdegrees around (0, 0), distances   *)
(* in centimetres, times in milliseconds.                                  *)

TRAIL_MAX_POINTS == 100

TRAIL_MIN_DISTANCE == 5

MAP_UPDATE_THRESHOLD == 40

Meters(m) == m * 100

\* The number NaN, as a value no coordinate or distance takes.
NaN == -999999999

\* a === b on numbers: NaN equals nothing
StrictEq(a, b) == a # NaN /\ b # NaN /\ a = b

\* a > b on numbers: false when a is NaN
Gt(a, b) == a # NaN /\ a > b

\* Math.sqrt on a non-negative integer, rounded down.
RECURSIVE SqrtBetween(_, _, _)
SqrtBetween(n, lo, hi) ==
    IF lo >= hi THEN lo
    ELSE LET mid == (lo + hi + 1) \div 2
         IN  IF mid * mid <= n THEN SqrtBetween(n, mid, hi)
             ELSE SqrtBetween(n, lo, mid - 1)

Sqrt(n) == SqrtBetween(n, 0, 46340)

\* v2's haversine distance with R = 6371e3.  Near the equator and over tens
\* of metres it is R * sqrt(dLat^2 + dLon^2) with the angles in radians:
\* 11.119 cm for each microdegree.  The root is taken to a tenth of a
\* microdegree.
getDistance(lat1, lon1, lat2, lon2) ==
    IF NaN \in {lat1, lon1, lat2, lon2} THEN NaN
    ELSE LET dLat == lat2 - lat1
             dLon == lon2 - lon1
             c == Sqrt((dLat * dLat + dLon * dLon) * 100)
         IN  Scale(c, 11119, 10000)

\* v1's projection with R = 6378137: 11.1319 cm for each microdegree (the
\* cosine of an anchor latitude this close to the equator is 1).
geoToMeters(lat, lon, anchorLat, anchorLon) ==
    [x |-> IF NaN \in {lon, anchorLon, anchorLat} THEN NaN
           ELSE Scale(lon - anchorLon, 111319, 10000),
     y |-> IF NaN \in {lat, anchorLat} THEN NaN
           ELSE Scale(lat - anchorLat, 111319, 10000)]

RADAR_ZOOM == 18

geoToPixelsYUp(lat, lng, anchorLat, anchorLng, zoom) ==
    LET n == 2 ^ (zoom + 8)
        px(d) == d * (n \div 360) + Scale(d, n % 360, 360)
    IN  IF NaN \in {lat, lng, anchorLat, anchorLng}
        THEN [x |-> NaN, y |-> NaN]
        ELSE [x |-> px(lng - anchorLng), y |-> px(lat - anchorLat)]

\* v2's projection to pixels, in millionths of a pixel.  A pixel is
\* 40075016.686 / 2^(zoom + 8) metres and a degree 111319.9 metres (the
\* cosine of an anchor latitude this close to the equator is 1), so a
\* microdegree is 2^(zoom + 8) / 360 millionths of a pixel.
geoToPixels(lat, lng, anchorLat, anchorLng, zoom) ==
    LET n == 2 ^ (zoom + 8)
        px(d) == d * (n \div 360) + Scale(d, n % 360, 360)
    IN  IF NaN \in {lat, lng, anchorLat, anchorLng}
        THEN [x |-> NaN, y |-> NaN]
        ELSE [x |-> px(lng - anchorLng), y |-> -px(lat - anchorLat)]

\* v2's svgPath for a trail and an anchor: "M x,y L x,y ..." as the
\* sequence of its vertices, the empty string as the empty sequence.
svgPath(trail, a, zoom) ==
    IF Len(trail) > 1
    THEN [i \in 1..Len(trail) |->
            LET pt == geoToPixels(trail[i].lat, trail[i].lng, a.lat, a.lng, zoom)
            IN  [cmd |-> IF i = 1 THEN "M" ELSE "L", x |-> pt.x, y |-> pt.y]]
    ELSE <<>>

\* v1's pathString, with SCALE = 2.
pathString(trail) ==
    IF Len(trail) < 2 THEN <<>>
    ELSE [i \in 1..Len(trail) |->
            [cmd |-> IF i = 1 THEN "M" ELSE "L",
             x |-> trail[i].x * 2, y |-> -(trail[i].y * 2)]]

Position(lat, lon, accuracy, altitude, speed, heading) ==
    [latitude |-> lat, longitude |-> lon, accuracy |-> accuracy,
     altitude |-> altitude, speed |-> speed, heading |-> heading]

\* The object handleSuccess stores: v3 keeps three fields, part_000 five.
MakeCoords(c) ==
    CASE build = "v3" -> Position(c.latitude, c.longitude, c.accuracy, Null, Null, Null)
      [] build = "p0" -> Position(c.latitude, c.longitude, c.accuracy, c.altitude, c.speed, Null)
      [] OTHER        -> c

duplicateV2Place(prev, c) ==
    /\ StrictEq(prev.latitude, c.latitude)
    /\ StrictEq(prev.longitude, c.longitude)

duplicateV2Accuracy(prev, c) ==
    /\ StrictEq(prev.latitude, c.latitude)
    /\ StrictEq(prev.longitude, c.longitude)
    /\ prev.speed = c.speed
    /\ prev.heading = c.heading
    /\ prev.accuracy = c.accuracy

duplicateV1(prev, c) ==
    /\ StrictEq(prev.latitude, c.latitude)
    /\ StrictEq(prev.longitude, c.longitude)
    /\ prev.speed = c.speed
    /\ prev.heading = c.heading
    /\ prev.altitude = c.altitude

duplicateV2(prev, c) ==
    /\ StrictEq(prev.latitude, c.latitude)
    /\ StrictEq(prev.longitude, c.longitude)
    /\ prev.speed = c.speed
    /\ prev.heading = c.heading

duplicateV3(prev, c) ==
    /\ StrictEq(prev.latitude, c.latitude)
    /\ StrictEq(prev.longitude, c.longitude)
    /\ prev.accuracy = c.accuracy

duplicateP0(prev, c) ==
    /\ StrictEq(prev.latitude, c.latitude)
    /\ StrictEq(prev.longitude, c.longitude)
    /\ prev.accuracy = c.accuracy
    /\ prev.speed = c.speed

\* setState's early return: the reading repeats the stored one.
Duplicate(c) ==
    /\ coords # Null
    /\ CASE build = "v1" -> duplicateV1(Val(coords), c)
         [] build = "v2" -> duplicateV2(Val(coords), c)
         [] build = "v3" -> duplicateV3(Val(coords), c)
         [] OTHER        -> duplicateP0(Val(coords), c)

throttledOff(now) == FALSE

\* v2 drops a callback that comes within 500 ms of the last accepted one.
throttled(now) == now - lastUpdate < 500

capV2KeepOldest(newPath) ==
    IF Len(newPath) > TRAIL_MAX_POINTS
    THEN SubSeq(newPath, 1, TRAIL_MAX_POINTS)
    ELSE newPath

\* newPath.length > MAX ? newPath.slice(newPath.length - MAX) : newPath
capV2(newPath) ==
    IF Len(newPath) > TRAIL_MAX_POINTS
    THEN SubSeq(newPath, Len(newPath) - TRAIL_MAX_POINTS + 1, Len(newPath))
    ELSE newPath

\* newPath.length > 100 ? newPath.slice(1) : newPath
capV1(newPath) ==
    IF Len(newPath) > 100 THEN Tail(newPath) ELSE newPath

farEnoughV2Always(last, c) == TRUE

farEnoughV2Coarse(last, c) ==
    Gt(getDistance(last.lat, last.lng, c.latitude, c.longitude),
       Meters(MAP_UPDATE_THRESHOLD))

farEnoughV2(last, c) ==
    Gt(getDistance(last.lat, last.lng, c.latitude, c.longitude),
       Meters(TRAIL_MIN_DISTANCE))

\* Math.sqrt(dx^2 + dy^2) > 1.5, compared on the squares.
farEnoughV1(last, x, y) ==
    /\ NaN \notin {x, y, last.x, last.y}
    /\ \/ Abs(x - last.x) > 150
       \/ Abs(y - last.y) > 150
       \/ (x - last.x) * (x - last.x) + (y - last.y) * (y - last.y) > 150 * 150

GeoPoint(c, now) ==
    [lat |-> c.latitude, lng |-> c.longitude, id |-> now, timestamp |-> now]

\* trailV2 putting the new point first
trailV2Prepend(c, now) ==
    /\ path' = IF Len(path) = 0 THEN <<GeoPoint(c, now)>>
               ELSE IF farEnoughV2(path[Len(path)], c)
                    THEN capV2(<<GeoPoint(c, now)>> \o path)
                    ELSE path
    /\ UNCHANGED anchorRef

\* v2's trail effect, run when coords is replaced.
trailV2(c, now) ==
    /\ path' = IF Len(path) = 0 THEN <<GeoPoint(c, now)>>
               ELSE IF farEnoughV2(path[Len(path)], c)
                    THEN capV2(Append(path, GeoPoint(c, now)))
                    ELSE path
    /\ UNCHANGED anchorRef

\* v1's trail effect: the first fix becomes the anchor and the origin.
trailV1(c, now) ==
    IF anchorRef = Null
    THEN /\ anchorRef' = Some([lat |-> c.latitude, lon |-> c.longitude])
         /\ path' = <<[x |-> 0, y |-> 0, id |-> now]>>
    ELSE LET p == geoToMeters(c.latitude, c.longitude,
                              Val(anchorRef).lat, Val(anchorRef).lon)
             point == [x |-> p.x, y |-> p.y, id |-> now]
         IN  /\ path' = IF Len(path) = 0 THEN <<point>>
                        ELSE IF farEnoughV1(path[Len(path)], p.x, p.y)
                             THEN capV1(Append(path, point))
                             ELSE path
             /\ UNCHANGED anchorRef

trailEffect(c, now) ==
    CASE build = "v1" -> trailV1(c, now)
      [] build = "v2" -> trailV2(c, now)
      [] OTHER        -> UNCHANGED <<path, anchorRef>>

radarEffectNear(a, lat, lng) ==
    LET distance == getDistance(a.lat, a.lng, lat, lng)
    IN  [isOffCenter |-> Gt(distance, Meters(10)),
         anchor |-> IF Gt(distance, Meters(10))
                    THEN [lat |-> lat, lng |-> lng] ELSE a]

\* One run of RadarMapbox's effect for anchor a and the live position.
radarEffect(a, lat, lng) ==
    LET distance == getDistance(a.lat, a.lng, lat, lng)
    IN  [isOffCenter |-> Gt(distance, Meters(10)),
         anchor |-> IF Gt(distance, Meters(MAP_UPDATE_THRESHOLD))
                    THEN [lat |-> lat, lng |-> lng] ELSE a]

radarSettleOnce(a, lat, lng) == radarEffect(a, lat, lng)

\* setAnchor schedules the effect again (anchor is a dependency): the
\* effect runs until it leaves the anchor alone.
RECURSIVE radarSettle(_, _, _)
radarSettle(a, lat, lng) ==
    LET r == radarEffect(a, lat, lng)
    IN  IF r.anchor = a THEN r ELSE radarSettle(r.anchor, lat, lng)

\* RadarMapbox is rendered once coords exists (v2): its first render takes
\* the live position as the anchor, later renders run the effect when the
\* position changed.
radarRender(c) ==
    IF build # "v2" THEN UNCHANGED <<anchor, isOffCenter>>
    ELSE IF anchor = Null
    THEN LET r == radarSettle([lat |-> c.latitude, lng |-> c.longitude],
                              c.latitude, c.longitude)
         IN  anchor' = Some(r.anchor) /\ isOffCenter' = r.isOffCenter
    ELSE IF c.latitude = Val(coords).latitude /\ c.longitude = Val(coords).longitude
    THEN UNCHANGED <<anchor, isOffCenter>>
    ELSE LET r == radarSettle(Val(anchor), c.latitude, c.longitude)
         IN  anchor' = Some(r.anchor) /\ isOffCenter' = r.isOffCenter

memoPathBlind ==
    svg' = CASE build = "v2" ->
                  IF anchor' = Null THEN svg
                  ELSE IF anchor' = anchor THEN svg
                  ELSE svgPath(path', Val(anchor'), RADAR_ZOOM)
             [] build = "v1" -> svg
             [] OTHER -> svg

\* The render after a handler: useMemo keeps the path string while its
\* dependencies ([lat, lng, anchor, path] in v2, [path] in v1) are the
\* same, and computes it again when one of them changed.  RadarMapbox is
\* rendered once coords exists.
memo ==
    svg' = CASE build = "v2" ->
                  IF anchor' = Null THEN svg
                  ELSE IF /\ anchor # Null
                          /\ Val(coords').latitude = Val(coords).latitude
                          /\ Val(coords').longitude = Val(coords).longitude
                          /\ anchor' = anchor
                          /\ path' = path
                  THEN svg
                  ELSE svgPath(path', Val(anchor'), RADAR_ZOOM)
             [] build = "v1" ->
                  IF coords' = Null \/ (coords # Null /\ path' = path) THEN svg
                  ELSE pathString(path')
             [] OTHER -> svg

\* The mission log's decimation threshold in metres.
MISSION_MIN_DISTANCE == 5

TrackPoint(c, now) ==
    [lat |-> c.latitude, lng |-> c.longitude, altitude |-> c.altitude,
     timestamp |-> now]

\* The mission log takes an emitted Position while recording: the first
\* one, and then each one farther than the threshold from the last logged
\* point.
missionEffect(emitted, c, now) ==
    /\ missionLog' =
          IF recording /\ emitted
             /\ (\/ missionLog = <<>>
                 \/ LET last == missionLog[Len(missionLog)]
                    IN  Gt(getDistance(last.lat, last.lng, c.latitude, c.longitude),
                           Meters(MISSION_MIN_DISTANCE)))
          THEN Append(missionLog, TrackPoint(c, now))
          ELSE missionLog
    /\ UNCHANGED <<recording, savePending, gpx, lastOp, dropped>>

\* watchPosition's success callback with the state updates and effects it
\* causes; dt is the time since the clock was last read.
HandleSuccess(c, dt, max) ==
    /\ mounted /\ watching
    /\ fixes < max
    /\ fixes' = fixes + 1
    /\ clock' = clock + dt
    /\ LET now == clock + dt
           accepted == build # "v2" \/ ~throttled(now)
           emit == accepted /\ ~Duplicate(c)
       IN  /\ lastUpdate' = IF build = "v2" /\ accepted THEN now ELSE lastUpdate
           /\ lastEvent' = IF ~accepted THEN "throttled"
                           ELSE IF emit THEN "emitted" ELSE "duplicate"
           /\ IF emit
              THEN /\ coords' = Some(MakeCoords(c))
                   /\ geoError' = Null
                   /\ loading' = FALSE
                   /\ emittedAt' = Some(now)
                   /\ trailEffect(c, now)
                   /\ radarRender(c)
              ELSE UNCHANGED <<coords, geoError, loading, emittedAt, path,
                               anchorRef, anchor, isOffCenter>>
    /\ evicted' = (path # <<>> /\ path' # path /\ Head(path') # Head(path))
    /\ missionEffect(lastEvent' = "emitted", MakeCoords(c), clock + dt)
    /\ memo
    /\ UNCHANGED <<build, compassVars, geolocation, watching, appVars,
                   ctxVars>>

ErrorCodes == {"PERMISSION_DENIED", "POSITION_UNAVAILABLE", "TIMEOUT"}

errorMessageDefault(code) ==
    CASE build = "v1" -> "Unknown error"
      [] build = "v2" -> "Signal Lost"
      [] OTHER        -> "Unknown error"

errorMessage(code) ==
    CASE build = "v1" ->
           (CASE code = "PERMISSION_DENIED" -> "GPS Denied"
              [] code = "POSITION_UNAVAILABLE" -> "Signal Lost"
              [] OTHER -> "Timeout")
      [] build = "v2" ->
           (CASE code = "PERMISSION_DENIED" -> "Location access denied"
              [] code = "POSITION_UNAVAILABLE" -> "Position unavailable"
              [] OTHER -> "Signal Lost")
      [] build = "v3" ->
           (CASE code = "PERMISSION_DENIED" -> "Location access denied"
              [] code = "POSITION_UNAVAILABLE" -> "Location unavailable"
              [] OTHER -> "Location request timed out")
      [] OTHER ->
           (CASE code = "PERMISSION_DENIED" -> "GPS access denied."
              [] code = "POSITION_UNAVAILABLE" -> "GPS signal lost."
              [] OTHER -> "GPS request timed out.")

returnsOnTimeoutNever(code) == FALSE

\* v2's switch returns before setState when the code is TIMEOUT.
returnsOnTimeout(code) == build = "v2" /\ code = "TIMEOUT"

\* watchPosition's error callback.
HandleError(code) ==
    /\ mounted /\ watching
    /\ lastEvent' = code
    /\ evicted' = FALSE
    /\ IF returnsOnTimeout(code)
       THEN UNCHANGED <<geoError, loading>>
       ELSE /\ geoError' = Some(errorMessage(code))
            /\ loading' = FALSE
    /\ UNCHANGED <<build, compassVars, geolocation, watching, coords,
                   lastUpdate, path, anchorRef, anchor, isOffCenter, svg, clock,
                   fixes, emittedAt, appVars, recVars,
                   ctxVars>>

\* resetRadar emptying the trail
ResetRadarEmpty(dt, max) ==
    /\ mounted /\ build \in {"v1", "v2"}
    /\ lastEvent' = "reset"
    /\ evicted' = FALSE
    /\ IF coords = Null
       THEN UNCHANGED <<fixes, clock, path, anchorRef>>
       ELSE /\ fixes < max
            /\ fixes' = fixes + 1
            /\ clock' = clock + dt
            /\ path' = <<>>
            /\ UNCHANGED anchorRef
    /\ UNCHANGED <<build, compassVars, geolocation, watching, coords, geoError,
                   loading, lastUpdate, anchor, isOffCenter, emittedAt, appVars,
                   recVars,
                   ctxVars>>
    /\ memo

\* resetRadar, the handler of the reset button (rendered while coords
\* exists).
ResetRadar(dt, max) ==
    /\ mounted /\ build \in {"v1", "v2"}
    /\ lastEvent' = "reset"
    /\ evicted' = FALSE
    /\ IF coords = Null
       THEN UNCHANGED <<fixes, clock, path, anchorRef>>
       ELSE /\ fixes < max
            /\ fixes' = fixes + 1
            /\ clock' = clock + dt
            /\ IF build = "v1"
               THEN /\ anchorRef' = Some([lat |-> Val(coords).latitude,
                                          lon |-> Val(coords).longitude])
                    /\ path' = <<[x |-> 0, y |-> 0, id |-> clock + dt]>>
               ELSE /\ path' = <<GeoPoint(Val(coords), clock + dt)>>
                    /\ UNCHANGED anchorRef
    /\ UNCHANGED <<build, compassVars, geolocation, watching, coords, geoError,
                   loading, lastUpdate, anchor, isOffCenter, emittedAt, appVars,
                   recVars,
                   ctxVars>>
    /\ memo

\* RadarMapbox's heading prop: heading || 0
headingProp == IF visualHeading = Null THEN 0 ELSE Val(visualHeading)

\* v2: mode === 'heading-up' ? heading : 0;  v1: heading ? heading : 0
rotation ==
    IF build = "v2"
    THEN IF mapMode = "heading-up" THEN headingProp ELSE 0
    ELSE headingProp

\* v2 only; v1 draws the marker on an overlay that is never rotated
markerRotation ==
    IF build = "v2"
    THEN IF mapMode = "heading-up" THEN 0 ELSE headingProp
    ELSE 0

\* the angle in the map container's transform: rotate(-rotation) in v2,
\* rotate(rotation) in v1
sceneRotation == IF build = "v2" THEN -rotation ELSE rotation

RecenterMapMovesAnchor(dt, max) ==
    /\ build = "v2" /\ isOffCenter
    /\ mounted /\ coords # Null
    /\ fixes < max
    /\ fixes' = fixes + 1
    /\ clock' = clock + dt
    /\ lastEvent' = "reset"
    /\ evicted' = FALSE
    /\ path' = <<GeoPoint(Val(coords), clock + dt)>>
    /\ anchor' = Some([lat |-> Val(coords).latitude,
                       lng |-> Val(coords).longitude])
    /\ isOffCenter' = FALSE
    /\ UNCHANGED <<build, compassVars, geolocation, watching, coords, geoError,
                   loading, lastUpdate, anchorRef, emittedAt, appVars, recVars,
                   ctxVars>>
    /\ memo

\* v2's recenter button, shown while the live position is off centre, calls
\* resetRadar.
RecenterMap(dt, max) ==
    /\ build = "v2" /\ isOffCenter
    /\ ResetRadar(dt, max)

\* v2's mode button inside RadarMapbox
ToggleMapMode ==
    /\ mounted /\ build = "v2"
    /\ coords # Null
    /\ mapMode' = IF mapMode = "heading-up" THEN "north-up" ELSE "heading-up"
    /\ UNCHANGED <<build, compassVars, geoVars, hasAbsolute, torn, leaked,
                   recVars,
                   ctxVars>>

StartRecordingKeepsLog ==
    /\ mounted
    /\ recording' = TRUE
    /\ savePending' = FALSE
    /\ missionLog' = missionLog
    /\ lastOp' = "start"
    /\ dropped' = IF savePending THEN Len(missionLog) ELSE 0
    /\ UNCHANGED <<build, compassVars, geoVars, appVars, gpx,
                   ctxVars>>

\* startRecording(): clears any previous log, pending save or not, and
\* enters Recording.
StartRecording ==
    /\ mounted
    /\ recording' = TRUE
    /\ savePending' = FALSE
    /\ missionLog' = <<>>
    /\ lastOp' = "start"
    /\ dropped' = IF savePending THEN Len(missionLog) ELSE 0
    /\ UNCHANGED <<build, compassVars, geoVars, appVars, gpx,
                   ctxVars>>

\* stopRecording(): Recording becomes Idle, with a save pending when the
\* log is not empty; in Idle it does nothing.
StopRecording ==
    /\ mounted
    /\ lastOp' = "stop"
    /\ IF recording
       THEN /\ recording' = FALSE
            /\ savePending' = (missionLog # <<>>)
       ELSE UNCHANGED <<recording, savePending>>
    /\ UNCHANGED <<build, compassVars, geoVars, appVars, missionLog, gpx,
                   dropped,
                   ctxVars>>

trkptAlwaysEle(p) ==
    [lat |-> p.lat, lon |-> p.lng,
     children |-> <<[tag |-> "ele", text |-> p.altitude],
                    [tag |-> "time", text |-> p.timestamp]>>]

\* One trkpt element: lat and lon attributes, an ele child when the point
\* has an altitude, a time child.
trkpt(p) ==
    [lat |-> p.lat, lon |-> p.lng,
     children |-> (IF p.altitude # Null
                   THEN <<[tag |-> "ele", text |-> Val(p.altitude)]>>
                   ELSE <<>>)
                  \o <<[tag |-> "time", text |-> p.timestamp]>>]

\* The GPX document: one trk with one trkseg holding the trkpt elements.
gpxDocument(log) ==
    [trk |-> [trkseg |-> [i \in 1..Len(log) |-> trkpt(log[i])]]]

\* The export action: nothing with an empty log, else the log is
\* serialised and no save is pending any more.
ExportGpx ==
    /\ mounted
    /\ IF missionLog = <<>>
       THEN UNCHANGED <<gpx, savePending, lastOp>>
       ELSE /\ gpx' = Some(gpxDocument(missionLog))
            /\ savePending' = FALSE
            /\ lastOp' = "export"
    /\ UNCHANGED <<build, compassVars, geoVars, appVars, recording, missionLog,
                   dropped,
                   ctxVars>>

----------------------------------------------------------------------------
(* GeoLocation: the context fetch effect *)

\* 0.5 km, in metres
API_FETCH_DISTANCE_THRESHOLD == 500

\* a < b as JavaScript evaluates it: false when a is NaN
Lt(a, b) == a # NaN /\ a < b

\* useDebounce(coords, delay)
debounceDelay ==
    CASE build = "v1" -> 3000
      [] build = "v2" -> 2000
      [] OTHER        -> 1200

\* controller.abort() on the controller of the newest run
abortLatest(fs) ==
    IF fs = <<>> THEN fs ELSE [fs EXCEPT ![Len(fs)].aborted = TRUE]

\* v2's early return: the debounced position is within the threshold of the
\* last fetched one and both address and weather are set
rateLimited(d, laf, addr, wx) ==
    /\ laf # Null
    /\ Lt(getDistance(Val(laf).lat, Val(laf).lng, d.latitude, d.longitude),
          Meters(API_FETCH_DISTANCE_THRESHOLD))
    /\ addr # Null
    /\ wx # Null

\* the effect gets as far as fetchData()
startsFetch(d, laf, addr, wx) ==
    d # Null /\ (build = "v2" => ~rateLimited(Val(d), laf, addr, wx))

\* a run of fetchData up to its first await; geo and wx record whether the
\* two responses were fulfilled and ok
NewFetch(d) ==
    [place |-> [latitude |-> Val(d).latitude, longitude |-> Val(d).longitude],
     pc |-> "network", aborted |-> FALSE, geo |-> FALSE, wx |-> FALSE]

\* A re-run of the effect with the dependencies given: the cleanup of the
\* run before aborts the newest controller, then the body starts a fetch
\* or returns early.
contextEffect(d, laf, addr, wx, fs, ctxLoading) ==
    /\ fetches' = IF startsFetch(d, laf, addr, wx)
                  THEN Append(abortLatest(fs), NewFetch(d))
                  ELSE abortLatest(fs)
    /\ isCtxLoading' = (startsFetch(d, laf, addr, wx) \/ ctxLoading)

\* the timer of useDebounce fires: delay ms have passed without a new coords
Debounce(max) ==
    /\ mounted
    /\ coords # Null /\ debouncedCoords # coords
    /\ debouncedCoords' = coords
    /\ clock' = clock + debounceDelay
    /\ contextEffect(coords, lastApiFetch, address, weather, fetches,
                     isCtxLoading)
    /\ Len(fetches') <= max
    /\ UNCHANGED <<lastApiFetch, address, weather>>
    /\ UNCHANGED <<build, compassVars, geolocation, watching, coords, geoError,
                   loading, lastUpdate, path, anchorRef, anchor, isOffCenter,
                   svg, fixes, emittedAt, lastEvent, evicted, appVars, recVars>>

\* finally: v2 clears isCtxLoading when the newest controller is not
\* aborted, the other builds always
finallyClears(fs) ==
    build # "v2" \/ fs[Len(fs)].aborted = FALSE

\* setLastApiFetch({ lat: latitude, lng: longitude }): a new object each time
fetched(i) ==
    IF build = "v2"
    THEN Some([lat |-> fetches[i].place.latitude,
               lng |-> fetches[i].place.longitude, by |-> i])
    ELSE lastApiFetch

\* Run i of fetchData resumes after an await and runs to its next await or
\* to its end: f is its new state and addr, wx, laf are the values of
\* address, weather and lastApiFetch it leaves.  React drops the updates of
\* an unmounted component; in v2 a changed dependency re-runs the effect.
resume(i, f, addr, wx, laf, max) ==
    LET fs == [fetches EXCEPT ![i] = f]
        ctxLoading == IF f.pc = "done" /\ finallyClears(fs) THEN FALSE
                      ELSE isCtxLoading
    IN  IF torn
        THEN /\ fetches' = fs
             /\ UNCHANGED <<address, weather, lastApiFetch, isCtxLoading>>
        ELSE /\ address' = addr
             /\ weather' = wx
             /\ lastApiFetch' = laf
             /\ IF build = "v2"
                   /\ <<addr, wx, laf>> # <<address, weather, lastApiFetch>>
                THEN /\ contextEffect(debouncedCoords, laf, addr, wx, fs,
                                      ctxLoading)
                     /\ Len(fetches') <= max
                ELSE /\ fetches' = fs
                     /\ isCtxLoading' = ctxLoading

\* what a step of fetchData leaves alone
fetchFrame ==
    UNCHANGED <<build, compassVars, geoVars, appVars, recVars, debouncedCoords>>

\* Promise.allSettled resolves.  The fetches of an aborted controller are
\* rejected; otherwise geoOk and wxOk say whether each response is fulfilled
\* and ok.  v2 returns when its signal is aborted.
AllSettled(i, geoOk, wxOk, max) ==
    /\ i \in 1..Len(fetches) /\ fetches[i].pc = "network"
    /\ LET f == fetches[i]
           g == geoOk /\ ~f.aborted
           w == wxOk /\ ~f.aborted
           pc == IF g THEN "geo" ELSE IF w THEN "weather" ELSE "done"
       IN  resume(i, [f EXCEPT !.pc = pc, !.geo = g, !.wx = w], address, weather,
                  IF pc = "done" /\ ~f.aborted THEN fetched(i) ELSE lastApiFetch,
                  max)
    /\ fetchFrame

\* the string setAddress is given: the place and the country code
locationString == Some("Town, XX")

\* await geoRes.value.json() settles: it rejects when the controller was
\* aborted, and v2 catches that and goes on; hasAddr says whether the data
\* has an address.
GeoJson(i, hasAddr, max) ==
    /\ i \in 1..Len(fetches) /\ fetches[i].pc = "geo"
    /\ LET f == fetches[i]
           caught == f.aborted /\ build # "v2"
           pc == IF caught THEN "done" ELSE IF f.wx THEN "weather" ELSE "done"
       IN  resume(i, [f EXCEPT !.pc = pc],
                  IF ~f.aborted /\ hasAddr THEN locationString ELSE address,
                  weather,
                  IF pc = "done" /\ ~caught THEN fetched(i) ELSE lastApiFetch,
                  max)
    /\ fetchFrame

\* await weatherRes.value.json() settles, and fetchData runs to its end
WeatherJson(i, max) ==
    /\ i \in 1..Len(fetches) /\ fetches[i].pc = "weather"
    /\ LET f == fetches[i]
           caught == f.aborted /\ build # "v2"
       IN  resume(i, [f EXCEPT !.pc = "done"], address,
                  IF ~f.aborted THEN Some([by |-> i]) ELSE weather,
                  IF caught THEN lastApiFetch ELSE fetched(i),
                  max)
    /\ fetchFrame

\* v3 removes the 'deviceorientation' listener without the capture flag it
\* was added with, so that listener stays registered.
removesListener == build # "v3" \/ hasAbsolute

\* Unmount: the cleanups of the effects run.
Unmount ==
    /\ mounted
    /\ mounted' = FALSE
    /\ torn' = TRUE
    /\ watching' = FALSE
    /\ frame' = Null
    /\ leaked' = (permissionGranted /\ ~removesListener)
    /\ UNCHANGED <<build, isIOS, permissionGranted, error, pending, trueHeading,
                   visualHeading, targetRef, currentRef, isAnimating, hidden,
                   samples, skipped, geolocation, coords, geoError, loading,
                   lastUpdate, path, anchorRef, anchor, isOffCenter, svg, clock,
                   fixes, emittedAt, lastEvent, evicted, hasAbsolute, mapMode,
                   recVars>>
    /\ fetches' = abortLatest(fetches)
    /\ UNCHANGED <<debouncedCoords, lastApiFetch, address, weather, isCtxLoading>>

----------------------------------------------------------------------------
(* Specifications *)

Init ==
    /\ build \in Builds
    /\ isIOS \in BOOLEAN
    /\ mounted = FALSE
    /\ permissionGranted = FALSE
    /\ error = Null
    /\ pending = 0
    /\ trueHeading = Null
    /\ visualHeading = Null
    /\ targetRef = 0
    /\ currentRef = 0
    /\ isAnimating = FALSE
    /\ hidden = FALSE
    /\ frame = Null
    /\ samples = 0
    /\ skipped = FALSE
    /\ geolocation \in BOOLEAN
    /\ watching = FALSE
    /\ coords = Null
    /\ geoError = Null
    /\ loading = TRUE
    /\ lastUpdate = 0
    /\ path = <<>>
    /\ anchorRef = Null
    /\ anchor = Null
    /\ isOffCenter = FALSE
    /\ svg = <<>>
    /\ clock = 1000
    /\ fixes = 0
    /\ emittedAt = Null
    /\ lastEvent = "none"
    /\ evicted = FALSE
    /\ hasAbsolute \in BOOLEAN
    /\ torn = FALSE
    /\ leaked = FALSE
    /\ mapMode = "heading-up"
    /\ recording = FALSE
    /\ savePending = FALSE
    /\ missionLog = <<>>
    /\ gpx = Null
    /\ lastOp = "none"
    /\ dropped = 0
    /\ debouncedCoords = Null
    /\ lastApiFetch = Null
    /\ address = Null
    /\ weather = Null
    /\ isCtxLoading = FALSE
    /\ fetches = <<>>

\* the compass specifications run where navigator.geolocation exists
InitCompass == Init /\ geolocation /\ hasAbsolute

\* Readings at one place that differ in one field each, and places 3.3 m,
\* 11 m and 44 m north and 11 m east of it.
Fixes ==
    { Position(0, 0, 5, Some(10), Null, Null),
      Position(0, 0, 8, Some(10), Null, Null),
      Position(0, 0, 5, Some(12), Null, Null),
      Position(0, 0, 5, Some(10), Some(2), Some(90)),
      Position(30, 0, 5, Some(10), Null, Null),
      Position(100, 0, 5, Some(10), Null, Null),
      Position(400, 0, 5, Some(10), Null, Null),
      Position(0, 100, 5, Some(10), Null, Null) }

\* time between two readings of the clock
Dts == {250, 500}

\* the geolocation specifications run where no permission prompt exists
InitGeo == Init /\ ~isIOS /\ hasAbsolute

\* geolocation callbacks, the trail and the map anchor
NextGeo ==
    \/ Mount
    \/ \E c \in Fixes, dt \in Dts : HandleSuccess(c, dt, MaxFixes)
    \/ \E code \in ErrorCodes : HandleError(code)
    \/ \E dt \in Dts : ResetRadar(dt, MaxFixes)

SpecGeo == InitGeo /\ [][NextGeo]_vars

\* Readings 11 m apart, the middle one without altitude.
RecFixes ==
    { Position(0, 0, 5, Some(10), Null, Null),
      Position(100, 0, 5, Null, Null, Null),
      Position(200, 0, 5, Some(12), Null, Null) }

InitRecord == InitGeo /\ geolocation

NextRecord ==
    \/ Mount
    \/ \E c \in RecFixes : HandleSuccess(c, 500, MaxRecFixes)
    \/ StartRecording
    \/ StopRecording
    \/ ExportGpx

SpecRecord == InitRecord /\ [][NextRecord]_vars

\* A long walk between two places 11 m apart, one fix every 500 ms, in the
\* builds that keep a trail.
WalkFixes ==
    { Position(0, 0, 5, Some(10), Null, Null),
      Position(100, 0, 5, Some(10), Null, Null) }

InitWalk == InitGeo /\ geolocation /\ build \in {"v1", "v2"}

NextWalk ==
    \/ Mount
    \/ \E c \in WalkFixes :
          /\ coords # Null => c.latitude # Val(coords).latitude
          /\ HandleSuccess(c, 500, MaxWalk)
    \/ ResetRadar(500, MaxWalk)

SpecWalk == InitWalk /\ [][NextWalk]_vars

\* The whole component: compass, geolocation, trail and map, with
\* a heading of 1 degree read either way, and fixes at a place (moving at 2 m/s on
\* course 90), 11 m north of it and 44 m north of it, 500 ms apart.
AppEvents ==
    { OrientationEvent(Some(Deg(1)), Null),
      OrientationEvent(Null, Some(Deg(359))) }

AppFixes ==
    { Position(0, 0, 5, Some(10), Some(2), Some(90)),
      Position(100, 0, 5, Some(10), Null, Null),
      Position(400, 0, 5, Some(10), Null, Null) }

NextApp ==
    \/ Mount
    \/ RequestAccess
    \/ \E r \in {"granted", "denied", "throw"} : ResolveAccess(r)
    \/ \E e \in AppEvents : HandleOrientation(e, MaxAppSamples)
    \/ Frame
    \/ Loop
    \/ \E c \in AppFixes : HandleSuccess(c, 500, MaxAppFixes)
    \/ HandleError("POSITION_UNAVAILABLE")
    \/ ResetRadar(500, MaxAppFixes + 1)
    \/ RecenterMap(500, MaxAppFixes + 1)
    \/ ToggleMapMode

\* Safari on iOS has requestPermission and no absolute orientation event;
\* the other platforms have the event and no requestPermission.
InitApp == Init /\ geolocation /\ hasAbsolute = ~isIOS

SpecApp == InitApp /\ [][NextApp]_vars

\* The subscriptions and their release at unmount
NextTeardown ==
    \/ Mount
    \/ RequestAccess
    \/ ResolveAccess("granted")
    \/ \E e \in AppEvents : HandleOrientation(e, MaxAppSamples)
    \/ Frame
    \/ Loop
    \/ \E c \in AppFixes : HandleSuccess(c, 500, MaxAppFixes)
    \/ HandleError("POSITION_UNAVAILABLE")
    \/ Unmount

SpecTeardown == InitApp /\ [][NextTeardown]_vars

\* Geolocation with readings whose latitude or longitude is NaN
NaNFixes ==
    { Position(NaN, 0, 5, Some(10), Null, Null),
      Position(0, NaN, 5, Some(10), Null, Null),
      Position(0, 0, 5, Some(10), Null, Null),
      Position(100, 0, 5, Some(10), Null, Null) }

NextNaN ==
    \/ Mount
    \/ \E c \in NaNFixes : HandleSuccess(c, 500, MaxFixes)
    \/ \E code \in ErrorCodes : HandleError(code)
    \/ ResetRadar(500, MaxFixes)

InitNaN == InitGeo /\ geolocation

SpecNaN == InitNaN /\ [][NextNaN]_vars

\* the orientation pipeline alone: permission, events, frame callbacks
NextOrientation ==
    \/ Mount
    \/ RequestAccess
    \/ \E r \in {"granted", "denied", "throw"} : ResolveAccess(r)
    \/ \E e \in Events : HandleOrientation(e, MaxSamples)
    \/ Frame

SpecOrientation == InitCompass /\ [][NextOrientation]_vars

\* A heading that drifts from 350 degrees in steps of 0.3 degrees, a
\* heading 0.2 degrees short of north, and an event without a heading.
DriftEvents ==
    {OrientationEvent(Some(Deg(350) + d), Null) : d \in {0, 300, 600, 900}}
        \cup {OrientationEvent(Some(Deg(360) - 200), Null),
              OrientationEvent(Null, Null)}

NextDrift ==
    \/ Mount
    \/ RequestAccess
    \/ \E r \in {"granted"} : ResolveAccess(r)
    \/ \E e \in DriftEvents : HandleOrientation(e, MaxDriftSamples)
    \/ Frame

SpecDrift == InitCompass /\ [][NextDrift]_vars

\* the orientation pipeline with the animation loop
\* Readings at one place, 3.3 m north of it and 511 m north of it.
CtxFixes ==
    { Position(0, 0, 5, Some(10), Null, Null),
      Position(30, 0, 5, Some(10), Null, Null),
      Position(4600, 0, 5, Some(10), Null, Null) }

NextContext ==
    \/ Mount
    \/ \E c \in CtxFixes : HandleSuccess(c, 500, MaxCtxFixes)
    \/ Debounce(MaxFetches)
    \/ \E i \in 1..MaxFetches, geoOk, wxOk \in BOOLEAN :
          AllSettled(i, geoOk, wxOk, MaxFetches)
    \/ \E i \in 1..MaxFetches, hasAddr \in BOOLEAN : GeoJson(i, hasAddr, MaxFetches)
    \/ \E i \in 1..MaxFetches : WeatherJson(i, MaxFetches)
    \/ Unmount

InitContext == InitGeo /\ geolocation

SpecContext == InitContext /\ [][NextContext]_vars

NextLoop ==
    \/ Mount
    \/ RequestAccess
    \/ \E r \in {"granted"} : ResolveAccess(r)
    \/ \E e \in LoopEvents : HandleOrientation(e, MaxLoopSamples)
    \/ Frame
    \/ Loop
    \/ VisibilityChange

SpecLoop == InitCompass /\ [][NextLoop]_vars

\* animation frames keep coming: requestAnimationFrame(loop) ends every run
\* of loop
FairLoop == SpecLoop /\ WF_vars(Loop)

\* the browser keeps running animation frames
FairOrientation == SpecOrientation /\ WF_vars(Frame)

----------------------------------------------------------------------------
(* Heading claims *)

\* C1: every update of the accumulated target angle (targetRef in v1 and v2,
\* cumulativeRef in p0) moves it by the shortest signed angular difference to
\* the reading: the new target is the reading modulo 360 and the change lies
\* in [-180, 180], whatever the sign or size of the accumulated angle.
C1_ShortestPathDelta ==
    [][targetRef' # targetRef =>
         /\ Abs(targetRef' - targetRef) <= HALF
         /\ (targetRef' - Val(trueHeading')) % FULL = 0]_vars

\* the builds that animate the heading with a loop
LoopBuild == build \in {"v1", "v2"}

\* what the renderer draws for a heading state: heading || 0
Rendered(h) == IF h = Null THEN 0 ELSE Val(h)

\* C2: in the builds that animate the heading with a loop, the value
\* published to the renderer never changes by more than 180 degrees from one
\* animation tick to the next, also when the heading crosses 0/360.
C2_NoSpinBack ==
    [][(LoopBuild /\ visualHeading # Null /\ visualHeading' # Null)
         => Abs(Val(visualHeading') - Val(visualHeading)) <= HALF]_vars

\* currentRef is within the loop's threshold of targetRef
WithinEpsilon ==
    IF build = "v1" THEN Abs(targetRef - currentRef) <= 10
    ELSE Abs(targetRef - currentRef) < 50

\* the loop has stopped moving currentRef
AtRest ==
    IF build = "v1" THEN Abs(targetRef - currentRef) <= 10 ELSE ~isAnimating

\* C3: with the target held constant and animation ticks continuing (the
\* document not hidden for ever), currentRef comes within epsilon of
\* targetRef after finitely many ticks; while the target stays the same
\* every later step leaves it within epsilon, and a tick at rest changes
\* neither currentRef nor the published heading.
C3_Converges ==
    /\ (LoopBuild /\ <>[](~hidden)) => <>[]WithinEpsilon
    /\ [][(LoopBuild /\ WithinEpsilon /\ targetRef' = targetRef)
            => WithinEpsilon']_vars
    /\ [][(LoopBuild /\ AtRest /\ targetRef' = targetRef)
            => (currentRef' = currentRef /\ visualHeading' = visualHeading)]_vars

\* C3 witness: after the last orientation sample moved the target, the loop
\* has brought currentRef to it and stopped.
C3_Witness ==
    /\ LoopBuild
    /\ samples = MaxLoopSamples
    /\ targetRef # 0
    /\ currentRef # 0
    /\ AtRest
    /\ WithinEpsilon

\* the loop has come to rest on a visible page
Settled == LoopBuild /\ ~hidden /\ AtRest

\* C4 as claimed: whatever ticks were skipped, once the loop has come to rest
\* the published heading equals targetRef mod 360 (both reduced mod 360).
C4_FinalHeadingExact ==
    Settled => Mod360(Rendered(visualHeading)) = Mod360(targetRef)

\* C4 as amended: whatever ticks were skipped, once the loop has come to rest
\* the published heading is targetRef mod 360 in v2, and in v1 it is the
\* unreduced cumulative angle within 0.01 degree of targetRef.
C4_FinalHeading ==
    Settled =>
        IF build = "v2" THEN Rendered(visualHeading) = Mod360(targetRef)
        ELSE Abs(Rendered(visualHeading) - targetRef) <= 10

\* C4 witness: a tick was skipped, the samples moved the target, and the
\* loop has come to rest with a published heading.
C4_Witness ==
    /\ Settled
    /\ skipped
    /\ samples = MaxLoopSamples
    /\ targetRef # 0
    /\ visualHeading # Null

----------------------------------------------------------------------------
(* Trail claims *)

\* the trail point the effect builds from the stored reading at the time
\* the clock shows
NewPoint(c, now) ==
    IF build = "v1"
    THEN LET p == geoToMeters(c.latitude, c.longitude,
                              Val(anchorRef).lat, Val(anchorRef).lon)
         IN  [x |-> p.x, y |-> p.y, id |-> now]
    ELSE GeoPoint(c, now)

\* distance between two stored trail points, in centimetres (squared in v1)
Gap(p, q) ==
    IF build = "v1"
    THEN (q.x - p.x) * (q.x - p.x) + (q.y - p.y) * (q.y - p.y)
    ELSE getDistance(p.lat, p.lng, q.lat, q.lng)

\* the minimum distance in the same unit
MinGap == IF build = "v1" THEN 150 * 150 ELSE Meters(TRAIL_MIN_DISTANCE)

\* C5: the trail never holds more than TRAIL_MAX_POINTS points, and an
\* emitted position far enough from the last point is appended as the last
\* point, the oldest point alone being dropped when the trail was full and
\* the others keeping their order.
C5_TrailCap ==
    /\ [](Len(path) <= TRAIL_MAX_POINTS)
    /\ [][(lastEvent' = "emitted" /\ path # <<>> /\ coords' # coords
            /\ Gap(path[Len(path)], NewPoint(Val(coords'), clock')) > MinGap)
           => path' = Append(IF Len(path) = TRAIL_MAX_POINTS
                             THEN Tail(path) ELSE path,
                             NewPoint(Val(coords'), clock'))]_vars

C5_Witness ==
    /\ evicted
    /\ Len(path) = TRAIL_MAX_POINTS
    /\ fixes > TRAIL_MAX_POINTS

\* C6: any two consecutive trail points are at least the minimum distance
\* apart: 5 m by getDistance in v2, 1.5 m in v1's anchor-relative metres.
C6_TrailSpacing ==
    \A i \in 1..(Len(path) - 1) : Gap(path[i], path[i + 1]) >= MinGap

\* a trail of two points and a third position too close to be appended
C6_Witness ==
    /\ build = "v2"
    /\ Len(path) = 2
    /\ lastEvent = "emitted"
    /\ Val(coords).latitude # path[2].lat

----------------------------------------------------------------------------
(* Map anchor and geolocation claims *)

\* distance from the map anchor to a stored reading, in centimetres
FromAnchor(c) ==
    getDistance(Val(anchor).lat, Val(anchor).lng, c.latitude, c.longitude)

\* C7: a live position within MAP_UPDATE_THRESHOLD (40 m) of the anchor
\* leaves the anchor alone; a position beyond it moves the anchor to that
\* position, where the effect comes to rest: in every state a further run
\* of the effect would leave the anchor unchanged.
C7_AnchorHysteresis ==
    /\ [][(build = "v2" /\ anchor # Null /\ coords' # Null)
           => IF FromAnchor(Val(coords')) > Meters(MAP_UPDATE_THRESHOLD)
              THEN anchor' = Some([lat |-> Val(coords').latitude,
                                   lng |-> Val(coords').longitude])
              ELSE anchor' = anchor]_vars
    /\ [](anchor # Null
           => /\ FromAnchor(Val(coords)) <= Meters(MAP_UPDATE_THRESHOLD)
              /\ radarEffect(Val(anchor), Val(coords).latitude,
                             Val(coords).longitude).anchor = Val(anchor))

\* the anchor has moved 44 m north of the first trail point, and the live
\* position has since moved 33 m back without moving it again
C7_Witness ==
    /\ build = "v2"
    /\ anchor # Null
    /\ Len(path) >= 2
    /\ path[1].lat = 0
    /\ Val(anchor).lat = 400
    /\ Val(coords).latitude = 100

Emissions == <<coords, geoError, loading>>

\* C8: in v2 two replacements of coords are at least 500 ms apart, and a
\* success callback less than 500 ms after the last accepted one changes
\* nothing but the clock.
C8_Throttle ==
    /\ [][(build = "v2" /\ coords' # coords /\ emittedAt # Null)
           => clock' - Val(emittedAt) >= 500]_vars
    /\ [][\A c \in Fixes, dt \in Dts :
            (build = "v2" /\ HandleSuccess(c, dt, MaxFixes)
             /\ clock + dt - lastUpdate < 500)
            => UNCHANGED <<Emissions, lastUpdate, path, anchorRef, anchor,
                           isOffCenter>>]_vars

\* a reading was dropped 250 ms after an emission
C8_Witness ==
    /\ build = "v2"
    /\ lastEvent = "throttled"
    /\ coords # Null
    /\ clock - Val(emittedAt) = 250

\* equal in latitude, longitude, heading and speed
SameFour(prev, c) ==
    /\ prev.latitude = c.latitude
    /\ prev.longitude = c.longitude
    /\ prev.heading = c.heading
    /\ prev.speed = c.speed

\* C9 as the specification states it: in v1 and v2 a reading equal to the
\* stored one in latitude, longitude, heading and speed leaves coords,
\* error and loading unchanged.
C9_DedupeFourFields ==
    [][\A c \in Fixes, dt \in Dts :
        (build \in {"v1", "v2"} /\ HandleSuccess(c, dt, MaxFixes)
         /\ coords # Null /\ SameFour(Val(coords), c))
        => UNCHANGED Emissions]_vars

\* C9: a reading equal to the stored one in latitude, longitude, heading
\* and speed leaves coords, error and loading unchanged in v2 whatever its
\* accuracy and altitude, and in v1 whatever its accuracy when its altitude
\* is equal too.
C9_Dedupe ==
    [][\A c \in Fixes, dt \in Dts :
        (build \in {"v1", "v2"} /\ HandleSuccess(c, dt, MaxFixes)
         /\ coords # Null /\ SameFour(Val(coords), c)
         /\ (build = "v1" => Val(coords).altitude = c.altitude))
        => UNCHANGED Emissions]_vars

\* v2 accepted a reading and kept the stored one from 500 ms before
C9_Witness ==
    /\ build = "v2"
    /\ lastEvent = "duplicate"
    /\ coords # Null
    /\ lastUpdate = Val(emittedAt) + 500

\* C10: a TIMEOUT error leaves coords as it was in every build, and in v2
\* it leaves error and loading as they were too.
C10_TimeoutKeepsCoords ==
    [][HandleError("TIMEOUT")
       => /\ coords' = coords
          /\ build = "v2" => UNCHANGED Emissions]_vars

\* v2 holds a position and no error after a TIMEOUT
C10_Witness ==
    /\ build = "v2"
    /\ lastEvent = "TIMEOUT"
    /\ coords # Null
    /\ geoError = Null

----------------------------------------------------------------------------
(* Error, permission and teardown claims *)

\* the reasons of the three terminal geolocation errors
TerminalReasons ==
    { Some(errorMessage("PERMISSION_DENIED")),
      Some(errorMessage("POSITION_UNAVAILABLE")),
      Some(UnsupportedMessage) }

\* C11: PERMISSION_DENIED, POSITION_UNAVAILABLE and a missing geolocation
\* API each set error to its own reason with loading false and coords kept;
\* the three reasons differ, and a TIMEOUT never sets error to one of them.
C11_TerminalErrors ==
    /\ [](Cardinality(TerminalReasons) = 3)
    /\ [][\A code \in {"PERMISSION_DENIED", "POSITION_UNAVAILABLE"} :
            HandleError(code)
            => /\ geoError' = Some(errorMessage(code))
               /\ ~loading'
               /\ coords' = coords]_vars
    /\ [][(Mount /\ ~geolocation)
           => /\ geoError' = Some(UnsupportedMessage)
              /\ ~loading'
              /\ coords' = coords]_vars
    /\ [][(HandleError("TIMEOUT") /\ geoError' # geoError)
           => geoError' \notin TerminalReasons]_vars

\* permission was denied while a position was held
C11_Witness ==
    /\ lastEvent = "PERMISSION_DENIED"
    /\ geoError = Some(errorMessage("PERMISSION_DENIED"))
    /\ ~loading
    /\ coords # Null

Finite(x) == x # NaN

\* C12: a reading whose latitude or longitude is NaN never becomes coords
\* and never makes a trail point: the stored position and every trail
\* point are finite.
C12_FiniteCoordinates ==
    /\ coords # Null
       => Finite(Val(coords).latitude) /\ Finite(Val(coords).longitude)
    /\ \A i \in 1..Len(path) :
          IF build = "v1" THEN Finite(path[i].x) /\ Finite(path[i].y)
          ELSE Finite(path[i].lat) /\ Finite(path[i].lng)

\* nothing of the compass has moved from its initial value
CompassInitial ==
    /\ trueHeading = Null
    /\ visualHeading = Null
    /\ targetRef = 0
    /\ currentRef = 0
    /\ frame = Null

\* on a platform with requestPermission only a 'granted' answer opens the gate
OnlyGrantOpens ==
    [][(isIOS /\ ~permissionGranted /\ permissionGranted')
       => ResolveAccess("granted")]_vars

\* C13 as the specification states it: while permissionGranted is false the
\* compass keeps its initial values; without requestPermission the gate
\* opens at mount; with it only a 'granted' answer opens it.
C13_GateOpensAtMount ==
    /\ [](~permissionGranted => CompassInitial)
    /\ [][(Mount /\ ~isIOS) => permissionGranted']_vars
    /\ OnlyGrantOpens

\* C13: while permissionGranted is false the compass keeps its initial
\* values; without requestPermission the gate opens at mount in v2 and at
\* the first requestAccess, with no prompt, in v1, v3 and part_000; with
\* requestPermission only a 'granted' answer opens it.
C13_Gate ==
    /\ [](~permissionGranted => CompassInitial)
    /\ [][(Mount /\ ~isIOS) => (permissionGranted' <=> build = "v2")]_vars
    /\ [][(RequestAccess /\ ~isIOS)
           => (permissionGranted' /\ pending' = pending)]_vars
    /\ OnlyGrantOpens

\* v1 without requestPermission reads a heading after a tap opened the gate
C13_Witness ==
    /\ build = "v1"
    /\ ~isIOS
    /\ permissionGranted
    /\ trueHeading # Null

\* C14: a 'denied' answer sets the compass error to the denied reason and a
\* rejected request sets the not-supported reason, neither touching
\* permissionGranted; no orientation event, frame, animation tick or
\* position event changes the error, and only a granted request clears it.
C14_CompassErrorTerminal ==
    /\ [][ResolveAccess("denied")
           => error' = Some(DeniedMessage) /\ UNCHANGED permissionGranted]_vars
    /\ [][ResolveAccess("throw")
           => error' = Some(NotSupportedMessage) /\ UNCHANGED permissionGranted]_vars
    /\ [][(\/ \E e \in AppEvents : HandleOrientation(e, MaxAppSamples)
            \/ Frame
            \/ Loop
            \/ \E c \in AppFixes : HandleSuccess(c, 500, MaxAppFixes)
            \/ \E code \in ErrorCodes : HandleError(code))
           => error' = error]_vars
    /\ [][(error # Null /\ error' = Null) => ResolveAccess("granted")]_vars

\* the denied reason is still shown after a heading and a position came in
C14_Witness ==
    /\ error = Some(DeniedMessage)
    /\ trueHeading # Null
    /\ coords # Null

\* what the hooks and components hold
EngineState ==
    <<permissionGranted, error, trueHeading, visualHeading, targetRef,
      currentRef, isAnimating, coords, geoError, loading, lastUpdate, path,
      anchorRef, anchor, isOffCenter, mapMode>>

\* C15: after unmount the position watch is cleared, no orientation
\* listener is registered and no animation frame is pending, and no later
\* event or frame changes the state the hooks hold.
C15_TeardownReleasesAll ==
    /\ [](torn => (~watching /\ ~leaked /\ frame = Null))
    /\ [][torn => UNCHANGED EngineState]_vars

----------------------------------------------------------------------------
(* Trail, map and heading claims *)

\* trail point p lies at the stored position (in v1: at the origin of a
\* frame anchored at the stored position)
AtCurrentPosition(p, c, a) ==
    IF build = "v1"
    THEN p.x = 0 /\ p.y = 0 /\ a = Some([lat |-> c.latitude, lon |-> c.longitude])
    ELSE p.lat = c.latitude /\ p.lng = c.longitude

\* C16: resetRadar, also when called as recenterMap, leaves one trail point
\* at the current position when coords exists, and changes nothing when it
\* does not.
C16_ResetRadar ==
    [][(ResetRadar(500, MaxAppFixes + 1) \/ RecenterMap(500, MaxAppFixes + 1))
       => IF coords = Null THEN UNCHANGED EngineState
          ELSE /\ Len(path') = 1
               /\ AtCurrentPosition(path'[1], Val(coords'), anchorRef')
               /\ coords' = coords]_vars

\* a trail that had reached the place 11 m north was reset there
C16_Witness ==
    /\ lastEvent = "reset"
    /\ coords # Null
    /\ Val(coords).latitude = 100
    /\ Len(path) = 1
    /\ fixes = 3

\* the trail point a position makes at a time, in the frame of anchor a
PointOf(c, now, a) ==
    IF build = "v1"
    THEN LET p == geoToMeters(c.latitude, c.longitude, Val(a).lat, Val(a).lon)
         IN  [x |-> p.x, y |-> p.y, id |-> now]
    ELSE GeoPoint(c, now)

\* C17: the trail's timestamps never decrease; whenever the trail changes,
\* its last point is the position stored at that moment, and the points
\* before it are the old trail, whole or without its head, unless the
\* trail was reset or empty.
C17_TrailInOrder ==
    /\ [](\A i \in 1..(Len(path) - 1) : path[i].id <= path[i + 1].id)
    /\ [][path' # path
           => /\ path' # <<>>
              /\ path'[Len(path')] = PointOf(Val(coords'), clock', anchorRef')
              /\ LET front == SubSeq(path', 1, Len(path') - 1)
                 IN  \/ front = path
                     \/ Len(path) = TRAIL_MAX_POINTS /\ front = Tail(path)
                     \/ front = <<>> /\ (path = <<>> \/ lastEvent' = "reset")]_vars

\* three positions were appended one after another
C17_Witness ==
    /\ build = "v2"
    /\ Len(path) = 3
    /\ path[1].timestamp < path[2].timestamp
    /\ path[2].timestamp < path[3].timestamp
    /\ path[3].lat = Val(coords).latitude

\* C18: while the radar is shown, heading-up mode rotates the scene by
\* -heading with marker rotation 0, and north-up mode leaves the scene
\* unrotated and rotates the marker by heading; toggleMapMode switches
\* between the two modes and changes nothing else.
C18_MapModes ==
    /\ []((build \in {"v1", "v2"} /\ coords # Null)
          => IF mapMode = "heading-up"
             THEN sceneRotation = -headingProp /\ markerRotation = 0
             ELSE sceneRotation = 0 /\ markerRotation = headingProp)
    /\ [][ToggleMapMode
           => /\ {mapMode, mapMode'} = {"heading-up", "north-up"}
              /\ UNCHANGED <<compassVars, geoVars>>]_vars

\* The position stored in coords, as an anchor.
Here(c) == [lat |-> Val(c).latitude, lng |-> Val(c).longitude]

\* The steps that are not the re-anchor step.
OtherStep ==
    \/ ResetRadar(500, MaxAppFixes + 1)
    \/ RecenterMap(500, MaxAppFixes + 1)
    \/ ToggleMapMode
    \/ \E e \in AppEvents : HandleOrientation(e, MaxAppSamples)
    \/ Frame
    \/ Loop

\* C19 as stated: the radar anchor (the map anchor of v2, the trail anchor
\* of v1), once set, is changed only by the re-anchor step taken when the
\* live position is beyond the re-anchor threshold; resetting the trail,
\* recentering, toggling the map mode, orientation samples and animation
\* ticks leave it unchanged.
C19_AnchorOnlyReanchors ==
    [][/\ (anchor # Null /\ anchor' # anchor)
            => /\ coords' # coords
               /\ Gt(getDistance(Val(anchor).lat, Val(anchor).lng,
                                 Val(coords').latitude, Val(coords').longitude),
                     Meters(MAP_UPDATE_THRESHOLD))
       /\ (anchorRef # Null /\ anchorRef' # anchorRef) => coords' # coords
       /\ OtherStep => UNCHANGED <<anchor, anchorRef>>]_vars

\* C19: the map anchor of v2, once set, is changed only by the re-anchor
\* step, which moves it to a live position more than the re-anchor
\* threshold away; resetting the trail, recentering, toggling the map mode,
\* orientation samples and animation ticks leave it unchanged.  The trail
\* anchor of v1, once set, is changed only by resetRadar, which moves it to
\* the current position.
C19_AnchorFrame ==
    [][/\ (anchor # Null /\ anchor' # anchor)
            => /\ coords' # coords
               /\ Gt(getDistance(Val(anchor).lat, Val(anchor).lng,
                                 Val(coords').latitude, Val(coords').longitude),
                     Meters(MAP_UPDATE_THRESHOLD))
               /\ anchor' = Some(Here(coords'))
       /\ (anchorRef # Null /\ anchorRef' # anchorRef)
            => /\ build = "v1"
               /\ ResetRadar(500, MaxAppFixes + 1)
               /\ anchorRef' = Some([lat |-> Val(coords).latitude,
                                     lon |-> Val(coords).longitude])
       /\ OtherStep => UNCHANGED anchor
       /\ (OtherStep /\ build # "v1") => UNCHANGED anchorRef]_vars

\* v2 after a reset away from the anchor: the trail restarts at the
\* current position while the anchor stays where it was.
C19_Witness ==
    /\ build = "v2" /\ lastEvent = "reset"
    /\ coords # Null /\ anchor # Null
    /\ isOffCenter
    /\ Val(anchor) # Here(coords)
    /\ Len(path) = 1
    /\ path = <<GeoPoint(Val(coords), path[1].id)>>

\* The latest Position reports a speed above 1 m/s and carries a course.
Moving ==
    /\ coords # Null
    /\ Val(coords).speed # Null /\ Val(Val(coords).speed) > 1
    /\ Val(coords).heading # Null

\* The headings useCompass returns: the smoothed heading and, in the builds
\* that return it, the raw compass heading.
Outputs == {Mod360(Val(h)) : h \in {trueHeading, visualHeading} \ {Null}}

\* C20: whenever the latest Position reports a speed above 1 m/s and
\* carries a course, a heading the engine outputs is that GPS course and
\* not the magnetometer heading.
C20_HeadingArbitration ==
    (Moving /\ Outputs # {})
        => Outputs = {Mod360(Deg(Val(Val(coords).heading)))}

----------------------------------------------------------------------------
(* Recording and export claims *)

\* What the recorder holds, without the history variables.
RecorderState == <<recording, savePending, missionLog, gpx>>

\* C21: stop() leaves the recorder stopped, and called on a stopped
\* recorder it changes neither the state nor the mission log, so a second
\* stop() in a row is a no-op; start() always begins recording from an
\* empty mission log with no save pending, whatever the log held.
C21_RecordingIdempotence ==
    [][/\ StopRecording => ~recording'
       /\ (StopRecording /\ ~recording) => UNCHANGED RecorderState
       /\ StartRecording
            => recording' /\ missionLog' = <<>> /\ ~savePending']_vars

\* start() after stop() discarded a log of two points that was pending
\* save.
C21_Witness ==
    /\ lastOp = "start" /\ dropped >= 2
    /\ ~savePending
    /\ recording /\ missionLog = <<>> /\ gpx = Null

\* C22: exporting a non-empty mission log produces one trkpt per point,
\* in the log's order, with that point's lat and lon, and with an ele
\* child exactly when the point's altitude is not null; exporting an empty
\* mission log changes nothing.
C22_GpxExport ==
    [][ExportGpx
        => IF missionLog = <<>>
           THEN UNCHANGED vars
           ELSE /\ gpx' # Null
                /\ LET seg == Val(gpx').trk.trkseg
                   IN  /\ Len(seg) = Len(missionLog)
                       /\ \A i \in 1..Len(seg) :
                            /\ seg[i].lat = missionLog[i].lat
                            /\ seg[i].lon = missionLog[i].lng
                            /\ (\E k \in 1..Len(seg[i].children) :
                                    seg[i].children[k].tag = "ele")
                               <=> missionLog[i].altitude # Null
                            /\ \A k \in 1..Len(seg[i].children) :
                                    seg[i].children[k].tag = "ele"
                                    => seg[i].children[k].text
                                         = Val(missionLog[i].altitude)]_vars

\* An exported document of three points, the middle one without ele.
C22_Witness ==
    /\ lastOp = "export" /\ gpx # Null
    /\ Len(Val(gpx).trk.trkseg) = 3
    /\ Len(Val(gpx).trk.trkseg[2].children) = 1
    /\ Len(Val(gpx).trk.trkseg[1].children) = 2

----------------------------------------------------------------------------
(* Projection and heading-state claims *)

Zooms == 0..MaxZoom

\* The places the radar projects: the live position and the trail points.
Projected ==
    {[lat |-> Val(coords).latitude, lng |-> Val(coords).longitude]}
        \cup {[lat |-> path[i].lat, lng |-> path[i].lng] : i \in 1..Len(path)}

\* C23: at every zoom level the anchor projects to (0, 0), the distance of
\* a place to itself is 0, a place north of the anchor projects to a
\* negative y and a place east of it to a positive x.
C23_ProjectionStability ==
    (build = "v2" /\ anchor # Null /\ coords # Null)
        => LET a == Val(anchor)
           IN  \A z \in Zooms :
                 /\ geoToPixels(a.lat, a.lng, a.lat, a.lng, z) = [x |-> 0, y |-> 0]
                 /\ \A p \in Projected :
                      LET pt == geoToPixels(p.lat, p.lng, a.lat, a.lng, z)
                      IN  /\ getDistance(p.lat, p.lng, p.lat, p.lng) = 0
                          /\ p.lat > a.lat => pt.y < 0
                          /\ p.lng > a.lng => pt.x > 0
                          /\ (p.lat = a.lat /\ p.lng = a.lng) => pt = [x |-> 0, y |-> 0]

\* The live position is north of the anchor and a trail point east of it.
C23_Witness ==
    /\ build = "v2" /\ anchor # Null /\ coords # Null
    /\ Val(coords).latitude > Val(anchor).lat
    /\ \E i \in 1..Len(path) : path[i].lng > Val(anchor).lng

\* A reading normalised into [0, 360).
Reading(e) == Mod360(Val(DegreeOf(e)))

\* The shortest angular distance between two angles of [0, 360).
AngDist(a, b) == Abs(Wrap(a - b))

\* C24 as stated: immediately after the handler has processed a reading
\* that carries a heading (the listener in v1 and v2, the frame callback
\* in part_000), the target angle modulo 360 equals the reading normalised
\* into [0, 360).
C24_TargetAbsorbsEvery ==
    [][/\ \A e \in DriftEvents :
            (/\ build \in {"v1", "v2"}
             /\ DegreeOf(e) # Null
             /\ HandleOrientation(e, MaxDriftSamples))
                => Mod360(targetRef') = Reading(e)
       /\ (build = "p0" /\ Frame /\ DegreeOf(Val(frame)) # Null)
            => Mod360(targetRef') = Reading(Val(frame))]_vars

\* C24: immediately after the handler has processed a reading that
\* carries a heading, the target angle modulo 360 equals the reading
\* normalised into [0, 360) in v1 and part_000; in v2 it equals the
\* reading whenever the target moved, and otherwise lies within 0.5
\* degrees of it.
C24_TargetAbsorbs ==
    [][/\ \A e \in DriftEvents :
            (/\ build \in {"v1", "v2"}
             /\ DegreeOf(e) # Null
             /\ HandleOrientation(e, MaxDriftSamples))
                => IF build = "v1" \/ targetRef' # targetRef
                   THEN Mod360(targetRef') = Reading(e)
                   ELSE AngDist(Mod360(targetRef'), Reading(e)) <= 500
       /\ (build = "p0" /\ Frame /\ DegreeOf(Val(frame)) # Null)
            => Mod360(targetRef') = Reading(Val(frame))]_vars

\* v2 holds a reading 0.3 degrees from a target it did not move.
C24_Witness ==
    /\ build = "v2" /\ trueHeading # Null
    /\ Mod360(targetRef) = Deg(350)
    /\ Val(trueHeading) = Deg(350) + 300

\* C25: in the build whose loop idles (v2), whenever the loop is idle
\* the animated angle equals the target; a step that changes the target
\* sets isAnimating in the same step; and a tick of the running loop with
\* the angle off the target moves the angle closer to the target.
C25_LoopResumes ==
    /\ [](build = "v2" /\ ~isAnimating => currentRef = targetRef)
    /\ [][(build = "v2" /\ targetRef' # targetRef) => isAnimating']_vars
    /\ [][(build = "v2" /\ Loop /\ isAnimating /\ currentRef # targetRef)
            => Abs(targetRef - currentRef') < Abs(targetRef - currentRef)]_vars

\* The loop had come to rest at 350 degrees when a reading of 5 degrees
\* moved the target and woke it.
C25_Witness ==
    /\ build = "v2" /\ isAnimating
    /\ currentRef = Deg(350) - FULL
    /\ targetRef = Deg(5)

\* C26: trueHeading is unset or a value in [0, 360); the handler sets it
\* to the reading normalised for every reading that carries a heading,
\* also one that does not move the target, and nothing else changes it, in
\* particular no animation tick; in the builds that animate the heading
\* with a loop an orientation sample does not write visualHeading.
C26_TrueHeadingRaw ==
    /\ [](trueHeading = Null
           \/ (0 <= Val(trueHeading) /\ Val(trueHeading) < FULL))
    /\ [][/\ \A e \in LoopEvents :
               (LoopBuild /\ HandleOrientation(e, MaxLoopSamples))
                   => (/\ trueHeading' = (IF DegreeOf(e) = Null THEN trueHeading
                                         ELSE Some(Reading(e)))
                       /\ UNCHANGED visualHeading)
          /\ (build = "p0" /\ Frame /\ DegreeOf(Val(frame)) # Null)
               => trueHeading' = Some(Reading(Val(frame)))
          /\ Loop => UNCHANGED trueHeading
          /\ trueHeading' # trueHeading
               => \/ \E e \in LoopEvents : HandleOrientation(e, MaxLoopSamples)
                  \/ Frame]_vars

\* v2 holds the reading 350.3 that did not move the target from 350,
\* while the loop has published a heading.
C26_Witness ==
    /\ build = "v2"
    /\ trueHeading = Some(Deg(350) + 300)
    /\ targetRef = Deg(350) - FULL
    /\ visualHeading # Null

----------------------------------------------------------------------------
(* Radar and sampling claims *)

\* C27: once RadarMapbox's effect has settled, isOffCenter holds exactly
\* when the live position is more than 10 m from the anchor, the live
\* position is at most MAP_UPDATE_THRESHOLD (40 m) from the anchor, and
\* right after the anchor has moved isOffCenter is false.
C27_TwoThresholds ==
    /\ []((build = "v2" /\ anchor # Null)
           => /\ isOffCenter <=> FromAnchor(Val(coords)) > Meters(10)
              /\ FromAnchor(Val(coords)) <= Meters(MAP_UPDATE_THRESHOLD))
    /\ [][(build = "v2" /\ anchor # Null /\ anchor' # anchor)
            => ~isOffCenter']_vars

\* The anchor has just moved 44 m north to the live position, and the
\* flag that was set 11 m from the old anchor is clear.
C27_Witness ==
    /\ build = "v2" /\ anchor # Null
    /\ lastEvent = "emitted"
    /\ Len(path) >= 3
    /\ path[1].lat = 0 /\ path[2].lat = 100
    /\ Val(anchor).lat = 400 /\ Val(coords).latitude = 400
    /\ ~isOffCenter

\* C28: the rendered trail path is determined by the trail and the
\* anchor: it is empty while the trail has fewer than two points, else it
\* has one vertex for each trail point, in trail order, at that point's
\* projection from the anchor (v2) or at its stored offset (v1); a step
\* that changes neither the trail nor the anchor, such as a new heading, a
\* mode toggle or a new live position, leaves it unchanged.
C28_PathFromTrailAndAnchor ==
    /\ []((build = "v2" /\ anchor # Null)
           => IF Len(path) < 2 THEN svg = <<>>
              ELSE /\ Len(svg) = Len(path)
                   /\ \A i \in 1..Len(path) :
                        LET pt == geoToPixels(path[i].lat, path[i].lng,
                                              Val(anchor).lat, Val(anchor).lng,
                                              RADAR_ZOOM)
                        IN  svg[i].x = pt.x /\ svg[i].y = pt.y)
    /\ []((build = "v1" /\ coords # Null)
           => IF Len(path) < 2 THEN svg = <<>>
              ELSE /\ Len(svg) = Len(path)
                   /\ \A i \in 1..Len(path) :
                        svg[i].x = 2 * path[i].x /\ svg[i].y = -(2 * path[i].y))
    /\ [][(path' = path /\ anchor' = anchor /\ anchorRef' = anchorRef
            /\ coords # Null)
            => svg' = svg]_vars

\* v2 in north-up mode with a heading on display and a path of two
\* vertices, the second 11 m north of the first.
C28_Witness ==
    /\ build = "v2" /\ anchor # Null
    /\ mapMode = "north-up" /\ visualHeading # Null
    /\ Len(path) = 2 /\ Len(svg) = 2
    /\ svg[1].cmd = "M" /\ svg[2].cmd = "L"
    /\ svg[2].y < svg[1].y

\* C29: in the build with the 0.5 degree dead band (v2) the ignored error
\* does not accumulate: after every orientation sample the shortest
\* angular distance between trueHeading and the target modulo 360 is at
\* most 0.5 degrees.
C29_DeadBandBounded ==
    (build = "v2" /\ trueHeading # Null)
        => AngDist(Val(trueHeading), Mod360(targetRef)) <= 500

\* A heading that drifted from 350 to 350.9 degrees in four steps of 0.3:
\* the target followed to 350.6.
C29_Witness ==
    /\ build = "v2" /\ samples = 4
    /\ trueHeading = Some(Deg(350) + 900)
    /\ Mod360(targetRef) = Deg(350) + 600

\* C30 as stated: in v2 a success callback that arrives at least 500 ms
\* after the last emitted Position and differs from it in latitude,
\* longitude, heading or speed is emitted.
C30_EmittedAfterLastEmission ==
    [][\A c \in Fixes, dt \in Dts :
         (/\ build = "v2" /\ coords # Null
          /\ HandleSuccess(c, dt, MaxFixes)
          /\ clock + dt - Val(emittedAt) >= 500
          /\ ~SameFour(Val(coords), c))
            => coords' = Some(MakeCoords(c))]_vars

\* C30: in v2 a success callback that arrives at least 500 ms after the
\* last callback that passed the throttle, emitted or coalesced away as a
\* duplicate, and that is the first or differs from the last emitted
\* Position in latitude, longitude, heading or speed, is emitted.
C30_EmittedAfterLastAccepted ==
    [][\A c \in Fixes, dt \in Dts :
         (/\ build = "v2"
          /\ HandleSuccess(c, dt, MaxFixes)
          /\ clock + dt - lastUpdate >= 500
          /\ (coords = Null \/ ~SameFour(Val(coords), c)))
            => /\ coords' = Some(MakeCoords(c))
               /\ emittedAt' = Some(clock')
               /\ lastEvent' = "emitted"]_vars

\* A second Position was emitted, differing from the first in speed and
\* heading only.
C30_Witness ==
    /\ build = "v2" /\ lastEvent = "emitted"
    /\ fixes >= 2 /\ clock >= 2000
    /\ emittedAt = Some(clock) /\ lastUpdate = clock
    /\ Val(coords).speed # Null
    /\ Len(path) = 1


-----------------------------------------------------------------------------
\* Trail-following, recentre and permission claims

\* the newest trail point
Newest(trail) == trail[Len(trail)]

\* d <= m as JavaScript evaluates it: false when d is NaN
Within(d, m) == d # NaN /\ d <= m

\* where a trail point lies, in the build's own coordinates
Place(p) == IF build = "v1" THEN <<p.x, p.y>> ELSE <<p.lat, p.lng>>

\* the trail exists and its newest point is within the minimum distance of c
Follows(trail, c) ==
    /\ trail # <<>>
    /\ Within(Gap(Newest(trail), NewPoint(c, 0)), MinGap)

\* C31: once a position has been emitted the trail is never empty and its
\* newest point is within TRAIL_MIN_DISTANCE of the current position; right
\* after an append or a reset the newest point is the current position.
C31_TrailFollows ==
    /\ []((build \in {"v1", "v2"} /\ coords # Null) => Follows(path, Val(coords)))
    /\ [][(build \in {"v1", "v2"} /\ coords' # Null
           /\ (lastEvent' = "reset" \/ (lastEvent' = "emitted" /\ path' # path)))
          => Place(Newest(path')) = Place(PointOf(Val(coords'), 0, anchorRef'))]_vars

\* a position was emitted, not appended, and the newest point is elsewhere
C31_Witness ==
    /\ build = "v2" /\ coords # Null /\ lastEvent = "emitted" /\ Len(path) >= 2
    /\ ~AtCurrentPosition(Newest(path), Val(coords), anchorRef)
    /\ Follows(path, Val(coords))

GrantIsKept == [][permissionGranted => permissionGranted']_vars

\* C33: for any interleaving of requestAccess calls and their outcomes,
\* permissionGranted never goes from true back to false, and the compass is
\* never granted and in error at once: a non-null error implies that
\* permissionGranted is false.
C33_GrantedExcludesError ==
    /\ [][permissionGranted => permissionGranted']_vars
    /\ [](error # Null => ~permissionGranted)

-----------------------------------------------------------------------------
\* Context fetch claims

\* the debounced position is within the fetch threshold of the last fetched one
NearLastFetch(laf, d) ==
    /\ laf # Null /\ d # Null
    /\ Lt(getDistance(Val(laf).lat, Val(laf).lng, Val(d).latitude,
                      Val(d).longitude),
          Meters(API_FETCH_DISTANCE_THRESHOLD))

\* C34: context fetching is rate-limited by distance: once a fetch has
\* completed and recorded its position, no further fetch is started while
\* the debounced position is within API_FETCH_DISTANCE_THRESHOLD of the last
\* fetched position, whatever the providers returned.
C34_FetchRateLimited ==
    [][(build = "v2" /\ mounted' /\ NearLastFetch(lastApiFetch', debouncedCoords'))
       => Len(fetches') = Len(fetches)]_vars

\* C35: a context fetch whose controller has been aborted writes neither
\* address nor weather nor lastApiFetch when it resumes after an await.
C35_AbortedNeverWrites ==
    [][\A i \in 1..Len(fetches) :
          (fetches[i].aborted /\ fetches'[i].pc # fetches[i].pc)
          => UNCHANGED <<address, weather, lastApiFetch>>]_vars

-----------------------------------------------------------------------------
\* Frame deferral claims

\* the heading state of useCompass
HeadingState == <<trueHeading, visualHeading, targetRef>>

\* C36: in the builds that defer handling to an animation frame (p0, v3) at
\* most one frame callback is pending; an orientation event replaces the
\* pending callback by one that holds that event and changes no heading
\* state; a frame applies the event its callback holds; and while frames keep
\* firing a pending event is eventually applied.
C36_FrameDeferral ==
    /\ [](Len(frame) <= 1)
    /\ [][\A e \in Events :
            (build \in {"p0", "v3"} /\ HandleOrientation(e, MaxSamples))
            => (frame' = <<e>> /\ UNCHANGED HeadingState)]_vars
    /\ [][(frame # Null /\ frame' = Null /\ DegreeOf(Newest(frame)) # Null)
          => LET n == Normalized(Val(DegreeOf(Newest(frame))))
             IN  IF build = "p0"
                 THEN trueHeading' = Some(n) /\ visualHeading' = Some(targetRef')
                 ELSE visualHeading' = Some(n)]_vars
    /\ (frame # Null) ~> (frame = Null)

\* two events have arrived, nothing has been applied, and the one pending
\* callback holds a heading
C36_Witness ==
    /\ build \in {"p0", "v3"}
    /\ samples = 2 /\ Len(frame) = 1 /\ DegreeOf(frame[1]) # Null
    /\ visualHeading = Null
====
